---------------------------- MODULE Spec2Model ----------------------------
(***************************************************************************)
(* The sentiment-based text generator: the sentiment classifier wrapper    *)
(* (sentiment.py), the text generator with its post-processing and its    *)
(* contextual fallback (text_generator.py), and the session script that   *)
(* runs them and keeps the generation history (main.py).                  *)
(*                                                                         *)
(* A Python string is a sequence of one-character strings, so that strip, *)
(* lower, startswith, split and the substring test are computed and not   *)
(* assumed. The three mis-encoded characters of one canned paragraph are  *)
(* written "U+00E2", "U+20AC", "U+201D".                                   *)
(***************************************************************************)
EXTENDS Integers, Sequences, FiniteSets

VARIABLES
    sentiment_analyzer,   \* "absent" (None) or "ready"
    text_generator,       \* [constructed: "no" | "yes" | "raised", model_loaded]
    sent_call,            \* the last call of the classifier wrapper
    gen_call,             \* the last call of the text generator
    history,              \* st.session_state.history
    clock,                \* the wall clock, in seconds, that stamps the entries
    render                \* what the last run of the session script did and showed

vars == <<sentiment_analyzer, text_generator, sent_call, gen_call, history, clock, render>>

(***************************************************************************)
(* Bounds of the model.                                                    *)
(***************************************************************************)
MaxPromptLen == 2
MaxLabelLen == 3
MaxGenerations == 6

(***************************************************************************)
(* Python's string operations.                                             *)
(***************************************************************************)
Min(S) == CHOOSE x \in S : \A y \in S : x <= y
Max(S) == CHOOSE x \in S : \A y \in S : x >= y

\* the characters str.strip() removes
Whitespace == {" ", "\n", "\t"}

\* the endings accepted by endswith(('.', '!', '?')) and by "in '.!?'"
TerminalPunctuation == {".", "!", "?"}

UpperCase ==
    <<"A", "B", "C", "D", "E", "F", "G", "H", "I", "J", "K", "L", "M",
      "N", "O", "P", "Q", "R", "S", "T", "U", "V", "W", "X", "Y", "Z">>
LowerCase ==
    <<"a", "b", "c", "d", "e", "f", "g", "h", "i", "j", "k", "l", "m",
      "n", "o", "p", "q", "r", "s", "t", "u", "v", "w", "x", "y", "z">>

LowerChar(c) ==
    IF \E i \in DOMAIN UpperCase : UpperCase[i] = c
    THEN LowerCase[CHOOSE i \in DOMAIN UpperCase : UpperCase[i] = c]
    ELSE c

\* str.lower()
Lower(s) == [i \in 1..Len(s) |-> LowerChar(s[i])]

\* str.strip()
Strip(s) ==
    IF \A i \in 1..Len(s) : s[i] \in Whitespace THEN <<>>
    ELSE LET first == CHOOSE i \in 1..Len(s) :
                          s[i] \notin Whitespace /\ \A j \in 1..(i - 1) : s[j] \in Whitespace
             last == CHOOSE i \in 1..Len(s) :
                         s[i] \notin Whitespace /\ \A j \in (i + 1)..Len(s) : s[j] \in Whitespace
         IN  SubSeq(s, first, last)

\* str.startswith(p)
StartsWith(s, p) == Len(p) <= Len(s) /\ SubSeq(s, 1, Len(p)) = p

\* s ends in one of the characters of chars
EndsWithAny(s, chars) == Len(s) > 0 /\ s[Len(s)] \in chars

\* str.find(sub), counted from 1; 0 when sub does not occur
Find(s, sub) ==
    LET hits == {i \in 1..(Len(s) - Len(sub) + 1) : SubSeq(s, i, i + Len(sub) - 1) = sub}
    IN  IF hits = {} THEN 0 ELSE Min(hits)

\* sub in s
Contains(s, sub) == Find(s, sub) # 0

\* str.split(sep, 1)
SplitOnce(s, sep) ==
    LET i == Find(s, sep)
    IN  IF i = 0 THEN <<s>>
        ELSE <<SubSeq(s, 1, i - 1), SubSeq(s, i + Len(sep), Len(s))>>

\* str.split(sep)
RECURSIVE Split(_, _)
Split(s, sep) ==
    LET i == Find(s, sep)
    IN  IF i = 0 THEN <<s>>
        ELSE <<SubSeq(s, 1, i - 1)>> \o Split(SubSeq(s, i + Len(sep), Len(s)), sep)

\* sep.join(parts)
RECURSIVE Join(_, _)
Join(parts, sep) ==
    IF Len(parts) = 0 THEN <<>>
    ELSE IF Len(parts) = 1 THEN parts[1]
    ELSE parts[1] \o sep \o Join(Tail(parts), sep)

\* every string over alphabet of length at most n
RECURSIVE StringsUpTo(_, _)
StringsUpTo(alphabet, n) ==
    IF n = 0 THEN {<<>>}
    ELSE LET shorter == StringsUpTo(alphabet, n - 1)
         IN  shorter \cup {Append(s, c) : s \in shorter, c \in alphabet}

(***************************************************************************)
(* The literals of text_generator.py.                                      *)
(***************************************************************************)
\* the literal marker of the continuation prompt: "Story: "
StoryMarker ==
    <<"S", "t", "o", "r", "y", ":", " ">>

\* the five positive clauses, in source order
PositiveClauses ==
    <<
      \* "The atmosphere was electric with excitement."
      <<"T", "h", "e", " ", "a", "t", "m", "o", "s", "p", "h", "e", "r", "e", " ", "w", "a", "s", " ", "e", "l", "e", "c", "t", "r", "i", "c", " ", "w", "i", "t", "h", " ", "e", "x", "c", "i", "t", "e", "m", "e", "n", "t", ".">>,
      \* "Everyone shared in the joy of the moment."
      <<"E", "v", "e", "r", "y", "o", "n", "e", " ", "s", "h", "a", "r", "e", "d", " ", "i", "n", " ", "t", "h", "e", " ", "j", "o", "y", " ", "o", "f", " ", "t", "h", "e", " ", "m", "o", "m", "e", "n", "t", ".">>,
      \* "This was a moment to celebrate."
      <<"T", "h", "i", "s", " ", "w", "a", "s", " ", "a", " ", "m", "o", "m", "e", "n", "t", " ", "t", "o", " ", "c", "e", "l", "e", "b", "r", "a", "t", "e", ".">>,
      \* "The feeling of accomplishment was overwhelming."
      <<"T", "h", "e", " ", "f", "e", "e", "l", "i", "n", "g", " ", "o", "f", " ", "a", "c", "c", "o", "m", "p", "l", "i", "s", "h", "m", "e", "n", "t", " ", "w", "a", "s", " ", "o", "v", "e", "r", "w", "h", "e", "l", "m", "i", "n", "g", ".">>,
      \* "Success felt incredible."
      <<"S", "u", "c", "c", "e", "s", "s", " ", "f", "e", "l", "t", " ", "i", "n", "c", "r", "e", "d", "i", "b", "l", "e", ".">>
    >>

\* the five negative clauses, in source order
NegativeClauses ==
    <<
      \* "The frustration was overwhelming."
      <<"T", "h", "e", " ", "f", "r", "u", "s", "t", "r", "a", "t", "i", "o", "n", " ", "w", "a", "s", " ", "o", "v", "e", "r", "w", "h", "e", "l", "m", "i", "n", "g", ".">>,
      \* "This was incredibly disappointing."
      <<"T", "h", "i", "s", " ", "w", "a", "s", " ", "i", "n", "c", "r", "e", "d", "i", "b", "l", "y", " ", "d", "i", "s", "a", "p", "p", "o", "i", "n", "t", "i", "n", "g", ".">>,
      \* "Nothing seemed to go as planned."
      <<"N", "o", "t", "h", "i", "n", "g", " ", "s", "e", "e", "m", "e", "d", " ", "t", "o", " ", "g", "o", " ", "a", "s", " ", "p", "l", "a", "n", "n", "e", "d", ".">>,
      \* "The situation felt hopeless."
      <<"T", "h", "e", " ", "s", "i", "t", "u", "a", "t", "i", "o", "n", " ", "f", "e", "l", "t", " ", "h", "o", "p", "e", "l", "e", "s", "s", ".">>,
      \* "It was exhausting and demoralizing."
      <<"I", "t", " ", "w", "a", "s", " ", "e", "x", "h", "a", "u", "s", "t", "i", "n", "g", " ", "a", "n", "d", " ", "d", "e", "m", "o", "r", "a", "l", "i", "z", "i", "n", "g", ".">>
    >>

\* the five neutral clauses, in source order
NeutralClauses ==
    <<
      \* "It was part of the daily routine."
      <<"I", "t", " ", "w", "a", "s", " ", "p", "a", "r", "t", " ", "o", "f", " ", "t", "h", "e", " ", "d", "a", "i", "l", "y", " ", "r", "o", "u", "t", "i", "n", "e", ".">>,
      \* "The day continued as usual."
      <<"T", "h", "e", " ", "d", "a", "y", " ", "c", "o", "n", "t", "i", "n", "u", "e", "d", " ", "a", "s", " ", "u", "s", "u", "a", "l", ".">>,
      \* "Nothing particularly noteworthy followed."
      <<"N", "o", "t", "h", "i", "n", "g", " ", "p", "a", "r", "t", "i", "c", "u", "l", "a", "r", "l", "y", " ", "n", "o", "t", "e", "w", "o", "r", "t", "h", "y", " ", "f", "o", "l", "l", "o", "w", "e", "d", ".">>,
      \* "It was a typical occurrence."
      <<"I", "t", " ", "w", "a", "s", " ", "a", " ", "t", "y", "p", "i", "c", "a", "l", " ", "o", "c", "c", "u", "r", "r", "e", "n", "c", "e", ".">>,
      \* "The routine proceeded normally."
      <<"T", "h", "e", " ", "r", "o", "u", "t", "i", "n", "e", " ", "p", "r", "o", "c", "e", "e", "d", "e", "d", " ", "n", "o", "r", "m", "a", "l", "l", "y", ".">>
    >>

\* the known template openers scanned by the post-processing
TemplateOpeners ==
    <<
      \* "The atmosphere was"
      <<"T", "h", "e", " ", "a", "t", "m", "o", "s", "p", "h", "e", "r", "e", " ", "w", "a", "s">>,
      \* "Everyone shared"
      <<"E", "v", "e", "r", "y", "o", "n", "e", " ", "s", "h", "a", "r", "e", "d">>,
      \* "This was"
      <<"T", "h", "i", "s", " ", "w", "a", "s">>,
      \* "The feeling"
      <<"T", "h", "e", " ", "f", "e", "e", "l", "i", "n", "g">>,
      \* "Success felt"
      <<"S", "u", "c", "c", "e", "s", "s", " ", "f", "e", "l", "t">>,
      \* "The frustration"
      <<"T", "h", "e", " ", "f", "r", "u", "s", "t", "r", "a", "t", "i", "o", "n">>,
      \* "Nothing seemed"
      <<"N", "o", "t", "h", "i", "n", "g", " ", "s", "e", "e", "m", "e", "d">>,
      \* "The situation"
      <<"T", "h", "e", " ", "s", "i", "t", "u", "a", "t", "i", "o", "n">>,
      \* "It was"
      <<"I", "t", " ", "w", "a", "s">>,
      \* "The day"
      <<"T", "h", "e", " ", "d", "a", "y">>,
      \* "The routine"
      <<"T", "h", "e", " ", "r", "o", "u", "t", "i", "n", "e">>
    >>

\* keyword group 1 of the positive branch
PositiveKeywords1 ==
    <<
      \* "promot"
      <<"p", "r", "o", "m", "o", "t">>,
      \* "success"
      <<"s", "u", "c", "c", "e", "s", "s">>,
      \* "achiev"
      <<"a", "c", "h", "i", "e", "v">>,
      \* "win"
      <<"w", "i", "n">>,
      \* "won"
      <<"w", "o", "n">>
    >>

\* "Excitement filled the room as congratulations poured in. All the hard work had finally paid off, and the future looked brighter than ever."
PositiveParagraph1 ==
    <<"E", "x", "c", "i", "t", "e", "m", "e", "n", "t", " ", "f", "i", "l", "l", "e", "d", " ",
      "t", "h", "e", " ", "r", "o", "o", "m", " ", "a", "s", " ", "c", "o", "n", "g", "r", "a",
      "t", "u", "l", "a", "t", "i", "o", "n", "s", " ", "p", "o", "u", "r", "e", "d", " ", "i",
      "n", ".", " ", "A", "l", "l", " ", "t", "h", "e", " ", "h", "a", "r", "d", " ", "w", "o",
      "r", "k", " ", "h", "a", "d", " ", "f", "i", "n", "a", "l", "l", "y", " ", "p", "a", "i",
      "d", " ", "o", "f", "f", ",", " ", "a", "n", "d", " ", "t", "h", "e", " ", "f", "u", "t",
      "u", "r", "e", " ", "l", "o", "o", "k", "e", "d", " ", "b", "r", "i", "g", "h", "t", "e",
      "r", " ", "t", "h", "a", "n", " ", "e", "v", "e", "r", ".">>

\* keyword group 2 of the positive branch
PositiveKeywords2 ==
    <<
      \* "love"
      <<"l", "o", "v", "e">>,
      \* "happy"
      <<"h", "a", "p", "p", "y">>,
      \* "joy"
      <<"j", "o", "y">>,
      \* "excit"
      <<"e", "x", "c", "i", "t">>,
      \* "great"
      <<"g", "r", "e", "a", "t">>
    >>

\* "The joy was contagious, spreading to everyone nearby. It was one of those perfect moments that would be remembered for years to come."
PositiveParagraph2 ==
    <<"T", "h", "e", " ", "j", "o", "y", " ", "w", "a", "s", " ", "c", "o", "n", "t", "a", "g",
      "i", "o", "u", "s", ",", " ", "s", "p", "r", "e", "a", "d", "i", "n", "g", " ", "t", "o",
      " ", "e", "v", "e", "r", "y", "o", "n", "e", " ", "n", "e", "a", "r", "b", "y", ".", " ",
      "I", "t", " ", "w", "a", "s", " ", "o", "n", "e", " ", "o", "f", " ", "t", "h", "o", "s",
      "e", " ", "p", "e", "r", "f", "e", "c", "t", " ", "m", "o", "m", "e", "n", "t", "s", " ",
      "t", "h", "a", "t", " ", "w", "o", "u", "l", "d", " ", "b", "e", " ", "r", "e", "m", "e",
      "m", "b", "e", "r", "e", "d", " ", "f", "o", "r", " ", "y", "e", "a", "r", "s", " ", "t",
      "o", " ", "c", "o", "m", "e", ".">>

\* keyword group 3 of the positive branch
PositiveKeywords3 ==
    <<
      \* "birth"
      <<"b", "i", "r", "t", "h">>,
      \* "baby"
      <<"b", "a", "b", "y">>,
      \* "wedding"
      <<"w", "e", "d", "d", "i", "n", "g">>,
      \* "marry"
      <<"m", "a", "r", "r", "y">>
    >>

\* "Tears of joy flowed freely as everyone celebrated together. The happiness in the air was palpable, creating memories that would last a lifetime."
PositiveParagraph3 ==
    <<"T", "e", "a", "r", "s", " ", "o", "f", " ", "j", "o", "y", " ", "f", "l", "o", "w", "e",
      "d", " ", "f", "r", "e", "e", "l", "y", " ", "a", "s", " ", "e", "v", "e", "r", "y", "o",
      "n", "e", " ", "c", "e", "l", "e", "b", "r", "a", "t", "e", "d", " ", "t", "o", "g", "e",
      "t", "h", "e", "r", ".", " ", "T", "h", "e", " ", "h", "a", "p", "p", "i", "n", "e", "s",
      "s", " ", "i", "n", " ", "t", "h", "e", " ", "a", "i", "r", " ", "w", "a", "s", " ", "p",
      "a", "l", "p", "a", "b", "l", "e", ",", " ", "c", "r", "e", "a", "t", "i", "n", "g", " ",
      "m", "e", "m", "o", "r", "i", "e", "s", " ", "t", "h", "a", "t", " ", "w", "o", "u", "l",
      "d", " ", "l", "a", "s", "t", " ", "a", " ", "l", "i", "f", "e", "t", "i", "m", "e", ".">>

\* "The positive energy was infectious. Everything seemed to fall perfectly into place, creating a sense of accomplishment and satisfaction."
PositiveDefault ==
    <<"T", "h", "e", " ", "p", "o", "s", "i", "t", "i", "v", "e", " ", "e", "n", "e", "r", "g",
      "y", " ", "w", "a", "s", " ", "i", "n", "f", "e", "c", "t", "i", "o", "u", "s", ".", " ",
      "E", "v", "e", "r", "y", "t", "h", "i", "n", "g", " ", "s", "e", "e", "m", "e", "d", " ",
      "t", "o", " ", "f", "a", "l", "l", " ", "p", "e", "r", "f", "e", "c", "t", "l", "y", " ",
      "i", "n", "t", "o", " ", "p", "l", "a", "c", "e", ",", " ", "c", "r", "e", "a", "t", "i",
      "n", "g", " ", "a", " ", "s", "e", "n", "s", "e", " ", "o", "f", " ", "a", "c", "c", "o",
      "m", "p", "l", "i", "s", "h", "m", "e", "n", "t", " ", "a", "n", "d", " ", "s", "a", "t",
      "i", "s", "f", "a", "c", "t", "i", "o", "n", ".">>

\* keyword group 1 of the negative branch
NegativeKeywords1 ==
    <<
      \* "traffic"
      <<"t", "r", "a", "f", "f", "i", "c">>,
      \* "late"
      <<"l", "a", "t", "e">>,
      \* "delay"
      <<"d", "e", "l", "a", "y">>,
      \* "stuck"
      <<"s", "t", "u", "c", "k">>
    >>

\* "The endless waiting and frustration built up with every passing minute. It was one of those days when nothing seemed to go right."
NegativeParagraph1 ==
    <<"T", "h", "e", " ", "e", "n", "d", "l", "e", "s", "s", " ", "w", "a", "i", "t", "i", "n",
      "g", " ", "a", "n", "d", " ", "f", "r", "u", "s", "t", "r", "a", "t", "i", "o", "n", " ",
      "b", "u", "i", "l", "t", " ", "u", "p", " ", "w", "i", "t", "h", " ", "e", "v", "e", "r",
      "y", " ", "p", "a", "s", "s", "i", "n", "g", " ", "m", "i", "n", "u", "t", "e", ".", " ",
      "I", "t", " ", "w", "a", "s", " ", "o", "n", "e", " ", "o", "f", " ", "t", "h", "o", "s",
      "e", " ", "d", "a", "y", "s", " ", "w", "h", "e", "n", " ", "n", "o", "t", "h", "i", "n",
      "g", " ", "s", "e", "e", "m", "e", "d", " ", "t", "o", " ", "g", "o", " ", "r", "i", "g",
      "h", "t", ".">>

\* keyword group 2 of the negative branch
NegativeKeywords2 ==
    <<
      \* "fail"
      <<"f", "a", "i", "l">>,
      \* "lost"
      <<"l", "o", "s", "t">>,
      \* "broke"
      <<"b", "r", "o", "k", "e">>,
      \* "bad"
      <<"b", "a", "d">>,
      \* "terrible"
      <<"t", "e", "r", "r", "i", "b", "l", "e">>
    >>

\* "Disappointment washed over like a wave. The setback felt overwhelming, making it hard to see any silver lining."
NegativeParagraph2 ==
    <<"D", "i", "s", "a", "p", "p", "o", "i", "n", "t", "m", "e", "n", "t", " ", "w", "a", "s",
      "h", "e", "d", " ", "o", "v", "e", "r", " ", "l", "i", "k", "e", " ", "a", " ", "w", "a",
      "v", "e", ".", " ", "T", "h", "e", " ", "s", "e", "t", "b", "a", "c", "k", " ", "f", "e",
      "l", "t", " ", "o", "v", "e", "r", "w", "h", "e", "l", "m", "i", "n", "g", ",", " ", "m",
      "a", "k", "i", "n", "g", " ", "i", "t", " ", "h", "a", "r", "d", " ", "t", "o", " ", "s",
      "e", "e", " ", "a", "n", "y", " ", "s", "i", "l", "v", "e", "r", " ", "l", "i", "n", "i",
      "n", "g", ".">>

\* keyword group 3 of the negative branch
NegativeKeywords3 ==
    <<
      \* "hate"
      <<"h", "a", "t", "e">>,
      \* "angry"
      <<"a", "n", "g", "r", "y">>,
      \* "frustrat"
      <<"f", "r", "u", "s", "t", "r", "a", "t">>,
      \* "annoy"
      <<"a", "n", "n", "o", "y">>
    >>

\* "The irritation was almost unbearable. Every little thing seemed to compound the frustration, creating a spiral of negativity."
NegativeParagraph3 ==
    <<"T", "h", "e", " ", "i", "r", "r", "i", "t", "a", "t", "i", "o", "n", " ", "w", "a", "s",
      " ", "a", "l", "m", "o", "s", "t", " ", "u", "n", "b", "e", "a", "r", "a", "b", "l", "e",
      ".", " ", "E", "v", "e", "r", "y", " ", "l", "i", "t", "t", "l", "e", " ", "t", "h", "i",
      "n", "g", " ", "s", "e", "e", "m", "e", "d", " ", "t", "o", " ", "c", "o", "m", "p", "o",
      "u", "n", "d", " ", "t", "h", "e", " ", "f", "r", "u", "s", "t", "r", "a", "t", "i", "o",
      "n", ",", " ", "c", "r", "e", "a", "t", "i", "n", "g", " ", "a", " ", "s", "p", "i", "r",
      "a", "l", " ", "o", "f", " ", "n", "e", "g", "a", "t", "i", "v", "i", "t", "y", ".">>

\* "The situation felt increasingly difficult to handle. One problem led to another, creating a cascade of complications."
NegativeDefault ==
    <<"T", "h", "e", " ", "s", "i", "t", "u", "a", "t", "i", "o", "n", " ", "f", "e", "l", "t",
      " ", "i", "n", "c", "r", "e", "a", "s", "i", "n", "g", "l", "y", " ", "d", "i", "f", "f",
      "i", "c", "u", "l", "t", " ", "t", "o", " ", "h", "a", "n", "d", "l", "e", ".", " ", "O",
      "n", "e", " ", "p", "r", "o", "b", "l", "e", "m", " ", "l", "e", "d", " ", "t", "o", " ",
      "a", "n", "o", "t", "h", "e", "r", ",", " ", "c", "r", "e", "a", "t", "i", "n", "g", " ",
      "a", " ", "c", "a", "s", "c", "a", "d", "e", " ", "o", "f", " ", "c", "o", "m", "p", "l",
      "i", "c", "a", "t", "i", "o", "n", "s", ".">>

\* keyword group 1 of the neutral branch
NeutralKeywords1 ==
    <<
      \* "coffee"
      <<"c", "o", "f", "f", "e", "e">>,
      \* "tea"
      <<"t", "e", "a">>,
      \* "breakfast"
      <<"b", "r", "e", "a", "k", "f", "a", "s", "t">>,
      \* "lunch"
      <<"l", "u", "n", "c", "h">>,
      \* "dinner"
      <<"d", "i", "n", "n", "e", "r">>
    >>

\* "It was a calm and ordinary moment \xe2\u20ac\u201d just another part of the usual routine. The familiar ritual provided a sense of normalcy."
NeutralParagraph1 ==
    <<"I", "t", " ", "w", "a", "s", " ", "a", " ", "c", "a", "l", "m", " ", "a", "n", "d", " ",
      "o", "r", "d", "i", "n", "a", "r", "y", " ", "m", "o", "m", "e", "n", "t", " ", "U+00E2",
      "U+20AC", "U+201D", " ", "j", "u", "s", "t", " ", "a", "n", "o", "t", "h", "e", "r", " ",
      "p", "a", "r", "t", " ", "o", "f", " ", "t", "h", "e", " ", "u", "s", "u", "a", "l", " ",
      "r", "o", "u", "t", "i", "n", "e", ".", " ", "T", "h", "e", " ", "f", "a", "m", "i", "l",
      "i", "a", "r", " ", "r", "i", "t", "u", "a", "l", " ", "p", "r", "o", "v", "i", "d", "e",
      "d", " ", "a", " ", "s", "e", "n", "s", "e", " ", "o", "f", " ", "n", "o", "r", "m", "a",
      "l", "c", "y", ".">>

\* keyword group 2 of the neutral branch
NeutralKeywords2 ==
    <<
      \* "work"
      <<"w", "o", "r", "k">>,
      \* "office"
      <<"o", "f", "f", "i", "c", "e">>,
      \* "meeting"
      <<"m", "e", "e", "t", "i", "n", "g">>,
      \* "email"
      <<"e", "m", "a", "i", "l">>
    >>

\* "The day proceeded with its typical rhythm. Tasks were completed methodically, one after another, without any particular urgency."
NeutralParagraph2 ==
    <<"T", "h", "e", " ", "d", "a", "y", " ", "p", "r", "o", "c", "e", "e", "d", "e", "d", " ",
      "w", "i", "t", "h", " ", "i", "t", "s", " ", "t", "y", "p", "i", "c", "a", "l", " ", "r",
      "h", "y", "t", "h", "m", ".", " ", "T", "a", "s", "k", "s", " ", "w", "e", "r", "e", " ",
      "c", "o", "m", "p", "l", "e", "t", "e", "d", " ", "m", "e", "t", "h", "o", "d", "i", "c",
      "a", "l", "l", "y", ",", " ", "o", "n", "e", " ", "a", "f", "t", "e", "r", " ", "a", "n",
      "o", "t", "h", "e", "r", ",", " ", "w", "i", "t", "h", "o", "u", "t", " ", "a", "n", "y",
      " ", "p", "a", "r", "t", "i", "c", "u", "l", "a", "r", " ", "u", "r", "g", "e", "n", "c",
      "y", ".">>

\* keyword group 3 of the neutral branch
NeutralKeywords3 ==
    <<
      \* "walk"
      <<"w", "a", "l", "k">>,
      \* "went"
      <<"w", "e", "n", "t">>,
      \* "saw"
      <<"s", "a", "w">>,
      \* "did"
      <<"d", "i", "d">>
    >>

\* "Nothing particularly noteworthy followed. It was simply another ordinary experience in the flow of daily life."
NeutralParagraph3 ==
    <<"N", "o", "t", "h", "i", "n", "g", " ", "p", "a", "r", "t", "i", "c", "u", "l", "a", "r",
      "l", "y", " ", "n", "o", "t", "e", "w", "o", "r", "t", "h", "y", " ", "f", "o", "l", "l",
      "o", "w", "e", "d", ".", " ", "I", "t", " ", "w", "a", "s", " ", "s", "i", "m", "p", "l",
      "y", " ", "a", "n", "o", "t", "h", "e", "r", " ", "o", "r", "d", "i", "n", "a", "r", "y",
      " ", "e", "x", "p", "e", "r", "i", "e", "n", "c", "e", " ", "i", "n", " ", "t", "h", "e",
      " ", "f", "l", "o", "w", " ", "o", "f", " ", "d", "a", "i", "l", "y", " ", "l", "i", "f",
      "e", ".">>

\* "Things continued in their usual pattern. Neither particularly good nor bad, just another regular moment passing by."
NeutralDefault ==
    <<"T", "h", "i", "n", "g", "s", " ", "c", "o", "n", "t", "i", "n", "u", "e", "d", " ", "i",
      "n", " ", "t", "h", "e", "i", "r", " ", "u", "s", "u", "a", "l", " ", "p", "a", "t", "t",
      "e", "r", "n", ".", " ", "N", "e", "i", "t", "h", "e", "r", " ", "p", "a", "r", "t", "i",
      "c", "u", "l", "a", "r", "l", "y", " ", "g", "o", "o", "d", " ", "n", "o", "r", " ", "b",
      "a", "d", ",", " ", "j", "u", "s", "t", " ", "a", "n", "o", "t", "h", "e", "r", " ", "r",
      "e", "g", "u", "l", "a", "r", " ", "m", "o", "m", "e", "n", "t", " ", "p", "a", "s", "s",
      "i", "n", "g", " ", "b", "y", ".">>

(***************************************************************************)
(* text_generator.py: TextGenerator                                        *)
(***************************************************************************)

\* __init__: the pipeline is built, or the handler sets model_loaded to False
\* and then loads the tokenizer and the model itself, unguarded
TextGeneratorInit(pipeline_ok, tokenizer_ok, model_ok) ==
    IF pipeline_ok THEN [constructed |-> "yes", model_loaded |-> TRUE]
    ELSE IF tokenizer_ok /\ model_ok THEN [constructed |-> "yes", model_loaded |-> FALSE]
    ELSE [constructed |-> "raised", model_loaded |-> FALSE]

\* CleanPrompt with the test of the ending lost: a '.' is always appended
CleanPromptAlwaysDot(base_prompt) == Strip(base_prompt) \o <<".">>

\* "Clean the prompt"
CleanPrompt(base_prompt) ==
    LET stripped == Strip(base_prompt)
    IN  IF EndsWithAny(stripped, TerminalPunctuation) THEN stripped
        ELSE stripped \o <<".">>

\* sentiment_templates.get(sentiment, sentiment_templates['neutral']), without
\* the "Story: {base_prompt} " every template starts with
SentimentClauses(sentiment) ==
    CASE sentiment = "positive" -> PositiveClauses
      [] sentiment = "negative" -> NegativeClauses
      [] OTHER -> NeutralClauses

\* the indices random.choice draws from
TemplateChoices == DOMAIN NeutralClauses

\* _get_sentiment_prompt, with the template random.choice drew
get_sentiment_prompt(base_prompt, sentiment, choice) ==
    StoryMarker \o CleanPrompt(base_prompt) \o <<" ">> \o SentimentClauses(sentiment)[choice]

\* any(word in prompt_lower for word in keywords)
AnyKeyword(keywords, prompt_lower) ==
    \E i \in DOMAIN keywords : Contains(prompt_lower, keywords[i])

\* the lookup with the first two positive branches in the other order
FallbackSecondGroupFirst(prompt, sentiment) ==
    LET prompt_lower == Lower(prompt)
    IN  IF sentiment = "positive" THEN
            IF AnyKeyword(PositiveKeywords2, prompt_lower) THEN PositiveParagraph2
            ELSE IF AnyKeyword(PositiveKeywords1, prompt_lower) THEN PositiveParagraph1
            ELSE IF AnyKeyword(PositiveKeywords3, prompt_lower) THEN PositiveParagraph3
            ELSE PositiveDefault
        ELSE IF sentiment = "negative" THEN
            IF AnyKeyword(NegativeKeywords1, prompt_lower) THEN NegativeParagraph1
            ELSE IF AnyKeyword(NegativeKeywords2, prompt_lower) THEN NegativeParagraph2
            ELSE IF AnyKeyword(NegativeKeywords3, prompt_lower) THEN NegativeParagraph3
            ELSE NegativeDefault
        ELSE
            IF AnyKeyword(NeutralKeywords1, prompt_lower) THEN NeutralParagraph1
            ELSE IF AnyKeyword(NeutralKeywords2, prompt_lower) THEN NeutralParagraph2
            ELSE IF AnyKeyword(NeutralKeywords3, prompt_lower) THEN NeutralParagraph3
            ELSE NeutralDefault

\* _generate_contextual_fallback
generate_contextual_fallback(prompt, sentiment) ==
    LET prompt_lower == Lower(prompt)
    IN  IF sentiment = "positive" THEN
            IF AnyKeyword(PositiveKeywords1, prompt_lower) THEN PositiveParagraph1
            ELSE IF AnyKeyword(PositiveKeywords2, prompt_lower) THEN PositiveParagraph2
            ELSE IF AnyKeyword(PositiveKeywords3, prompt_lower) THEN PositiveParagraph3
            ELSE PositiveDefault
        ELSE IF sentiment = "negative" THEN
            IF AnyKeyword(NegativeKeywords1, prompt_lower) THEN NegativeParagraph1
            ELSE IF AnyKeyword(NegativeKeywords2, prompt_lower) THEN NegativeParagraph2
            ELSE IF AnyKeyword(NegativeKeywords3, prompt_lower) THEN NegativeParagraph3
            ELSE NegativeDefault
        ELSE
            IF AnyKeyword(NeutralKeywords1, prompt_lower) THEN NeutralParagraph1
            ELSE IF AnyKeyword(NeutralKeywords2, prompt_lower) THEN NeutralParagraph2
            ELSE IF AnyKeyword(NeutralKeywords3, prompt_lower) THEN NeutralParagraph3
            ELSE NeutralDefault

\* _generate_fallback, the legacy entry to the same lookup
generate_fallback(prompt, sentiment) == generate_contextual_fallback(prompt, sentiment)

\* the sampling parameters of the sentiment, in hundredths
SamplingParameters(sentiment) ==
    IF sentiment = "positive" THEN [temperature |-> 80, top_p |-> 92]
    ELSE IF sentiment = "negative" THEN [temperature |-> 75, top_p |-> 90]
    ELSE [temperature |-> 70, top_p |-> 85]

\* "Ensure we have meaningful content": the least trimmed length kept
MinContentLength == 20

\* what one invocation of the language model does: it raises, it returns a
\* result whose result[0]['generated_text'] cannot be read or used as a string,
\* or it returns a text: the prompt it was given (echo) followed by tail, or
\* tail alone
RawText(enhanced_prompt, outcome) ==
    IF outcome.echo THEN enhanced_prompt \o outcome.tail ELSE outcome.tail

\* step 1: keep what follows the first "Story: "
StripFraming(generated) ==
    IF Contains(generated, StoryMarker) THEN
        LET story_parts == SplitOnce(generated, StoryMarker)
        IN  IF Len(story_parts) > 1 THEN story_parts[2] ELSE generated
    ELSE generated

\* step 2: remove the original prompt from the output
RemovePrompt(generated, prompt) ==
    IF StartsWith(generated, prompt)
    THEN Strip(SubSeq(generated, Len(prompt) + 1, Len(generated)))
    ELSE generated

\* step 3: the for/else over the template openers
KeepContinuation(generated) ==
    IF \E i \in DOMAIN TemplateOpeners : StartsWith(generated, TemplateOpeners[i])
    THEN generated
    ELSE LET sentences == Split(generated, <<".">>)
         IN  IF Len(sentences) > 1
             THEN Strip(Join(Tail(sentences), <<".", " ">>))
             ELSE generated

\* step 4: whether the text is long enough to be kept
HasMeaningfulContent(generated) == Len(Strip(generated)) >= MinContentLength

\* step 5 lost: the text is returned as it is
EnsureEndingSkipped(generated) == generated

\* step 5: "Ensure proper ending"
EnsureEnding(generated) ==
    IF generated # <<>> /\ generated[Len(generated)] \notin TerminalPunctuation
    THEN generated \o <<".">>
    ELSE generated

\* what a call gives back to its caller
Returned(text, path, invocations) ==
    [raised |-> FALSE, text |-> text, path |-> path, invocations |-> invocations]
Raised(path, invocations) ==
    [raised |-> TRUE, text |-> <<>>, path |-> path, invocations |-> invocations]

\* the body of the try block of generate_text: the one invocation of the model
\* and the post-processing of its text
TryGenerate(prompt, sentiment, enhanced_prompt, outcome) ==
    IF outcome.kind # "text" THEN Raised("exception", 1)
    ELSE LET generated == KeepContinuation(RemovePrompt(
                              StripFraming(RawText(enhanced_prompt, outcome)), prompt))
         IN  IF ~HasMeaningfulContent(generated)
             THEN Returned(generate_contextual_fallback(prompt, sentiment), "too_short", 1)
             ELSE Returned(EnsureEnding(generated), "generated", 1)

\* an except block that invokes the model a second time before it gives up
OnGenerationErrorRetry(prompt, sentiment, tried) ==
    Returned(generate_contextual_fallback(prompt, sentiment), "exception",
             tried.invocations + 1)

\* the except block of generate_text
OnGenerationError(prompt, sentiment, tried) ==
    Returned(generate_contextual_fallback(prompt, sentiment), "exception", tried.invocations)

\* generate_text
generate_text(model_loaded, prompt, sentiment, choice, outcome) ==
    IF ~model_loaded
    THEN Returned(generate_contextual_fallback(prompt, sentiment), "not_loaded", 0)
    ELSE LET enhanced_prompt == get_sentiment_prompt(prompt, sentiment, choice)
             tried == TryGenerate(prompt, sentiment, enhanced_prompt, outcome)
         IN  IF tried.raised THEN OnGenerationError(prompt, sentiment, tried)
             ELSE tried

(***************************************************************************)
(* sentiment.py: SentimentAnalyzer                                         *)
(***************************************************************************)
LabelPos == <<"p", "o", "s">>
LabelNeg == <<"n", "e", "g">>
LabelNeutral == <<"n", "e", "u", "t", "r", "a", "l">>

\* the blank test without strip(): only the empty text is blank
IsBlankEmptyOnly(text) == text = <<>>

\* "not text or not text.strip()"
IsBlank(text) == text = <<>> \/ Strip(text) = <<>>

\* the label read without lower()
ResultLabelAsGiven(result) == IF result.has_label THEN result.label ELSE <<>>

\* result.get("label", "").lower()
ResultLabel(result) == Lower(IF result.has_label THEN result.label ELSE <<>>)

\* the three returns that follow the lower-cased label
NormalizeLabel(label) ==
    IF Contains(label, LabelPos) THEN "positive"
    ELSE IF Contains(label, LabelNeg) THEN "negative"
    ELSE "neutral"

\* detect_sentiment; outcome is what self._pipeline(text) does when it is called
detect_sentiment(text, outcome) ==
    IF IsBlank(text) THEN [raised |-> FALSE, value |-> "neutral", invocations |-> 0]
    ELSE IF outcome.kind = "raise" THEN [raised |-> TRUE, value |-> "", invocations |-> 1]
    ELSE [raised |-> FALSE, value |-> NormalizeLabel(ResultLabel(outcome.result)),
          invocations |-> 1]

\* the dict returned for a blank text: {"label": "neutral", "score": 0.0}
BlankScores == [has_label |-> TRUE, label |-> LabelNeutral, score |-> 0]
NoScores == [has_label |-> FALSE, label |-> <<>>, score |-> 0]

\* get_sentiment_scores
get_sentiment_scores(text, outcome) ==
    IF IsBlank(text) THEN [raised |-> FALSE, value |-> BlankScores, invocations |-> 0]
    ELSE IF outcome.kind = "raise" THEN [raised |-> TRUE, value |-> NoScores, invocations |-> 1]
    ELSE [raised |-> FALSE, value |-> outcome.result, invocations |-> 1]

(***************************************************************************)
(* main.py: the session script                                             *)
(***************************************************************************)

\* load_models: both objects, or (None, None) when a constructor raises
LoadModels(analyzer_ok, generator) ==
    IF analyzer_ok /\ generator.constructed = "yes"
    THEN [sentiment_analyzer |-> "ready", text_generator |-> generator]
    ELSE [sentiment_analyzer |-> "absent",
          text_generator |-> [constructed |-> "no", model_loaded |-> FALSE]]

\* the number of entries the history section shows
DisplayedEntries == 5

\* history[-n:]
LastEntries(h, n) == SubSeq(h, Max({1, Len(h) - n + 1}), Len(h))

\* reversed(h)
Reversed(h) == [i \in 1..Len(h) |-> h[Len(h) - i + 1]]

\* the history section without reversed(): oldest first
HistoryDisplayOldestFirst(h) == LastEntries(h, DisplayedEntries)

\* the history section: reversed(st.session_state.history[-5:])
HistoryDisplay(h) == Reversed(LastEntries(h, DisplayedEntries))

\* the rejection test without strip()
IsRejectedEmptyOnly(prompt) == prompt = <<>>

\* "if prompt.strip() == ''": the request is rejected with a warning
IsRejected(prompt) == Strip(prompt) = <<>>

NoRun ==
    [warned |-> FALSE, aborted |-> FALSE, completed |-> FALSE, sentiment |-> "",
     generated |-> <<>>, classifier_calls |-> 0, generator_calls |-> 0]

\* the generation logic from the sentiment on: text_generator.generate_text,
\* then the entry is appended. classifier_calls counts the calls made so far.
GenerateFrom(prompt, sentiment, classifier_calls, generator, choice, outcome) ==
    IF generator.constructed # "yes"
    THEN [NoRun EXCEPT !.aborted = TRUE, !.classifier_calls = classifier_calls]
    ELSE LET got == generate_text(generator.model_loaded, prompt, sentiment, choice, outcome)
         IN  IF got.raised
             THEN [NoRun EXCEPT !.aborted = TRUE, !.classifier_calls = classifier_calls,
                                !.generator_calls = 1]
             ELSE [NoRun EXCEPT !.completed = TRUE, !.sentiment = sentiment,
                                !.generated = got.text,
                                !.classifier_calls = classifier_calls,
                                !.generator_calls = 1]

\* the generation logic of one run in which "Generate Text" was clicked.
\* An exception that reaches the script ends the run (aborted).
GenerationLogic(prompt, mode, manual_sentiment, show_scores, analyzer, generator, label_outcome, scores_outcome, choice, outcome) ==
    IF IsRejected(prompt) THEN [NoRun EXCEPT !.warned = TRUE]
    ELSE IF mode = "Automatic Sentiment" THEN
        IF analyzer # "ready" THEN [NoRun EXCEPT !.aborted = TRUE]
        ELSE LET detected == detect_sentiment(prompt, label_outcome)
                 scores == get_sentiment_scores(prompt, scores_outcome)
             IN  IF detected.raised
                 THEN [NoRun EXCEPT !.aborted = TRUE, !.classifier_calls = 1]
                 ELSE IF show_scores /\ scores.raised
                 THEN [NoRun EXCEPT !.aborted = TRUE, !.classifier_calls = 2]
                 ELSE GenerateFrom(prompt, detected.value, IF show_scores THEN 2 ELSE 1,
                                   generator, choice, outcome)
    ELSE GenerateFrom(prompt, manual_sentiment, 0, generator, choice, outcome)

\* the history entry appended by a completed generation
HistoryEntry(prompt, run, now) ==
    [prompt |-> prompt, sentiment |-> run.sentiment, generated |-> run.generated,
     timestamp |-> now]

\* the entry put in front of the list instead of at its end
PrependEntry(h, entry) == <<entry>> \o h

\* st.session_state.history.append(entry)
AppendEntry(h, entry) == Append(h, entry)

\* what a run that reaches the history section shows, and what one that is
\* ended by an exception before it shows
Shown(kind, prompt, run, h) ==
    [kind |-> kind, prompt |-> prompt, warned |-> run.warned, aborted |-> run.aborted,
     completed |-> run.completed, classifier_calls |-> run.classifier_calls,
     generator_calls |-> run.generator_calls,
     shown |-> ~run.aborted, display |-> IF run.aborted THEN <<>> ELSE HistoryDisplay(h)]
\* prompts a user may type: the documented examples, overlapping keyword groups, upper case, surrounding whitespace
NamedPrompts ==
    {
      \* "I got a promotion today"
      <<"I", " ", "g", "o", "t", " ", "a", " ", "p", "r", "o", "m", "o", "t", "i", "o", "n", " ", "t", "o", "d", "a", "y">>,
      \* "I was stuck in traffic"
      <<"I", " ", "w", "a", "s", " ", "s", "t", "u", "c", "k", " ", "i", "n", " ", "t", "r", "a", "f", "f", "i", "c">>,
      \* "I had coffee this morning"
      <<"I", " ", "h", "a", "d", " ", "c", "o", "f", "f", "e", "e", " ", "t", "h", "i", "s", " ", "m", "o", "r", "n", "i", "n", "g">>,
      \* "Great success, so happy!"
      <<"G", "r", "e", "a", "t", " ", "s", "u", "c", "c", "e", "s", "s", ",", " ", "s", "o", " ", "h", "a", "p", "p", "y", "!">>,
      \* "I WON the match"
      <<"I", " ", "W", "O", "N", " ", "t", "h", "e", " ", "m", "a", "t", "c", "h">>,
      \* "I ate chocolate?"
      <<"I", " ", "a", "t", "e", " ", "c", "h", "o", "c", "o", "l", "a", "t", "e", "?">>,
      \* "  It was fun \n"
      <<" ", " ", "I", "t", " ", "w", "a", "s", " ", "f", "u", "n", " ", "\n">>,
      \* "The"
      <<"T", "h", "e">>,
      \* "Tea at the office"
      <<"T", "e", "a", " ", "a", "t", " ", "t", "h", "e", " ", "o", "f", "f", "i", "c", "e">>,
      \* "Angry: my phone broke"
      <<"A", "n", "g", "r", "y", ":", " ", "m", "y", " ", "p", "h", "o", "n", "e", " ", "b", "r", "o", "k", "e">>,
      \* "We did walk to the wedding"
      <<"W", "e", " ", "d", "i", "d", " ", "w", "a", "l", "k", " ", "t", "o", " ", "t", "h", "e", " ", "w", "e", "d", "d", "i", "n", "g">>,
      \* "Nice"
      <<"N", "i", "c", "e">>,
      \* "Story: hm"
      <<"S", "t", "o", "r", "y", ":", " ", "h", "m">>
    }

\* texts the language model may produce (after the echoed prompt, or on their own)
NamedTails ==
    {
      \* ""
      <<>>,
      \* "."
      <<".">>,
      \* " x"
      <<" ", "x">>,
      \* " And then it rained for hours"
      <<" ", "A", "n", "d", " ", "t", "h", "e", "n", " ", "i", "t", " ", "r", "a", "i", "n", "e", "d", " ", "f", "o", "r", " ", "h", "o", "u", "r", "s">>,
      \* " So we danced all night long!"
      <<" ", "S", "o", " ", "w", "e", " ", "d", "a", "n", "c", "e", "d", " ", "a", "l", "l", " ", "n", "i", "g", "h", "t", " ", "l", "o", "n", "g", "!">>,
      \* " Why?"
      <<" ", "W", "h", "y", "?">>,
      \* "xxxxxxxxxxxxxxxxxxx"
      <<"x", "x", "x", "x", "x", "x", "x", "x", "x", "x", "x", "x", "x", "x", "x", "x", "x", "x", "x">>,
      \* "xxxxxxxxxxxxxxxxxxxx"
      <<"x", "x", "x", "x", "x", "x", "x", "x", "x", "x", "x", "x", "x", "x", "x", "x", "x", "x", "x", "x">>,
      \* " xxxxxxxxxxxxxxxxxxx "
      <<" ", "x", "x", "x", "x", "x", "x", "x", "x", "x", "x", "x", "x", "x", "x", "x", "x", "x", "x", "x", " ">>,
      \* "One. Two three four five six seven"
      <<"O", "n", "e", ".", " ", "T", "w", "o", " ", "t", "h", "r", "e", "e", " ", "f", "o", "u", "r", " ", "f", "i", "v", "e", " ", "s", "i", "x", " ", "s", "e", "v", "e", "n">>,
      \* "It was raining cats and dogs today "
      <<"I", "t", " ", "w", "a", "s", " ", "r", "a", "i", "n", "i", "n", "g", " ", "c", "a", "t", "s", " ", "a", "n", "d", " ", "d", "o", "g", "s", " ", "t", "o", "d", "a", "y", " ">>,
      \* "Story: nested marker here, long enough"
      <<"S", "t", "o", "r", "y", ":", " ", "n", "e", "s", "t", "e", "d", " ", "m", "a", "r", "k", "e", "r", " ", "h", "e", "r", "e", ",", " ", "l", "o", "n", "g", " ", "e", "n", "o", "u", "g", "h">>
    }

\* label vocabularies of text-classification models
NamedLabels ==
    {
      \* "POSITIVE"
      <<"P", "O", "S", "I", "T", "I", "V", "E">>,
      \* "NEGATIVE"
      <<"N", "E", "G", "A", "T", "I", "V", "E">>,
      \* "NEUTRAL"
      <<"N", "E", "U", "T", "R", "A", "L">>,
      \* "LABEL_0"
      <<"L", "A", "B", "E", "L", "_", "0">>,
      \* "LABEL_1"
      <<"L", "A", "B", "E", "L", "_", "1">>,
      \* "5 stars"
      <<"5", " ", "s", "t", "a", "r", "s">>,
      \* "1 star"
      <<"1", " ", "s", "t", "a", "r">>,
      \* "Positive"
      <<"P", "o", "s", "i", "t", "i", "v", "e">>,
      \* "NEG_POS"
      <<"N", "E", "G", "_", "P", "O", "S">>
    }

\* texts handed to the classifier
Texts ==
    {
      \* ""
      <<>>,
      \* " "
      <<" ">>,
      \* "\n\t "
      <<"\n", "\t", " ">>,
      \* "I won"
      <<"I", " ", "w", "o", "n">>,
      \* " ok "
      <<" ", "o", "k", " ">>
    }

\* contents of the text area
SessionPrompts ==
    {
      \* ""
      <<>>,
      \* " \n"
      <<" ", "\n">>,
      \* "I won"
      <<"I", " ", "w", "o", "n">>
    }

(***************************************************************************)
(* The inputs the operations are run on.                                   *)
(***************************************************************************)
PromptAlphabet == {" ", ".", "!", "a"}
Prompts == NamedPrompts \cup StringsUpTo(PromptAlphabet, MaxPromptLen)

\* the three sentiments, and a value that is none of them
Sentiments == {"positive", "negative", "neutral"}
AnySentiment == Sentiments \cup {"mixed"}

Tails == NamedTails

ModelOutcomes ==
    {[kind |-> k, echo |-> FALSE, tail |-> <<>>] : k \in {"raise", "malformed"}}
    \cup {[kind |-> "text", echo |-> e, tail |-> t] : e \in BOOLEAN, t \in Tails}

LabelAlphabet == {"p", "o", "s", "N", "e", "g"}
Labels == NamedLabels \cup StringsUpTo(LabelAlphabet, MaxLabelLen)

\* confidences, in hundredths
Scores == {50, 99}

ClassifierOutcomes ==
    {[kind |-> "raise", result |-> NoScores]}
    \cup {[kind |-> "result", result |-> [has_label |-> FALSE, label |-> <<>>, score |-> s]] :
            s \in Scores}
    \cup {[kind |-> "result", result |-> [has_label |-> TRUE, label |-> l, score |-> s]] :
            l \in Labels, s \in Scores}

\* only a call that reaches the model draws a template with random.choice and
\* invokes the model
DrawnChoices ==
    {c \in TemplateChoices : text_generator.model_loaded \/ c = Min(TemplateChoices)}
DrawnOutcomes ==
    {o \in ModelOutcomes : text_generator.model_loaded \/ o.kind = "raise"}

\* what the session's models do, and what its user selects
SessionLabelOutcomes ==
    {o \in ClassifierOutcomes :
        \/ o.kind = "raise"
        \/ /\ o.result.has_label
           /\ o.result.score = 99
           /\ o.result.label = <<"P", "O", "S", "I", "T", "I", "V", "E">>}
SessionModelOutcomes == {o \in DrawnOutcomes : o.kind = "raise"}
SessionManualSentiments == {"negative"}

GenerationModes == {"Automatic Sentiment", "Manual Sentiment"}

(***************************************************************************)
(* The state before any call.                                              *)
(***************************************************************************)
NoGenerator == [constructed |-> "no", model_loaded |-> FALSE]
NoSentCall ==
    [op |-> "none", text |-> <<>>, outcome |-> [kind |-> "raise", result |-> NoScores],
     ret |-> [raised |-> FALSE, value |-> "", invocations |-> 0]]
NoGenCall ==
    [op |-> "none", prompt |-> <<>>, sentiment |-> "", choice |-> 0,
     outcome |-> [kind |-> "raise", echo |-> FALSE, tail |-> <<>>],
     enhanced_prompt |-> <<>>, ret |-> Returned(<<>>, "none", 0)]
NoRender == Shown("none", <<>>, NoRun, <<>>)

(***************************************************************************)
(* The text generator on its own: construction, then calls.                *)
(***************************************************************************)
Construct ==
    /\ text_generator.constructed = "no"
    /\ \E pipeline_ok \in BOOLEAN, tokenizer_ok \in BOOLEAN, model_ok \in BOOLEAN :
           text_generator' = TextGeneratorInit(pipeline_ok, tokenizer_ok, model_ok)
    /\ UNCHANGED <<sentiment_analyzer, sent_call, gen_call, history, clock, render>>

CallGenerateText ==
    /\ text_generator.constructed = "yes"
    /\ gen_call.op = "none"
    /\ \E prompt \in Prompts, sentiment \in AnySentiment, choice \in DrawnChoices,
          outcome \in DrawnOutcomes :
           gen_call' =
               [op |-> "generate_text", prompt |-> prompt, sentiment |-> sentiment,
                choice |-> choice, outcome |-> outcome,
                enhanced_prompt |->
                    IF text_generator.model_loaded
                    THEN get_sentiment_prompt(prompt, sentiment, choice) ELSE <<>>,
                ret |-> generate_text(text_generator.model_loaded, prompt, sentiment,
                                      choice, outcome)]
    /\ UNCHANGED <<sentiment_analyzer, text_generator, sent_call, history, clock, render>>

CallGenerateFallback ==
    /\ text_generator.constructed = "yes"
    /\ gen_call.op = "none"
    /\ \E prompt \in Prompts, sentiment \in AnySentiment :
           gen_call' =
               [NoGenCall EXCEPT !.op = "generate_fallback", !.prompt = prompt,
                                 !.sentiment = sentiment,
                                 !.ret = Returned(generate_fallback(prompt, sentiment),
                                                  "fallback", 0)]
    /\ UNCHANGED <<sentiment_analyzer, text_generator, sent_call, history, clock, render>>

\* the caller takes the result: the component is ready for its next call
ReturnFromGenerator ==
    /\ gen_call.op # "none"
    /\ gen_call' = NoGenCall
    /\ UNCHANGED <<sentiment_analyzer, text_generator, sent_call, history, clock, render>>

InitGen ==
    /\ sentiment_analyzer = "absent"
    /\ text_generator = NoGenerator
    /\ sent_call = NoSentCall
    /\ gen_call = NoGenCall
    /\ history = <<>>
    /\ clock = 0
    /\ render = NoRender

NextGen == Construct \/ CallGenerateText \/ CallGenerateFallback \/ ReturnFromGenerator

SpecGen == InitGen /\ [][NextGen]_vars

(***************************************************************************)
(* The classifier wrapper on its own.                                      *)
(***************************************************************************)
CallDetectSentiment ==
    /\ sentiment_analyzer = "ready"
    /\ sent_call.op = "none"
    /\ \E text \in Texts, outcome \in ClassifierOutcomes :
           sent_call' = [op |-> "detect_sentiment", text |-> text, outcome |-> outcome,
                         ret |-> detect_sentiment(text, outcome)]
    /\ UNCHANGED <<sentiment_analyzer, text_generator, gen_call, history, clock, render>>

CallGetSentimentScores ==
    /\ sentiment_analyzer = "ready"
    /\ sent_call.op = "none"
    /\ \E text \in Texts, outcome \in ClassifierOutcomes :
           sent_call' = [op |-> "get_sentiment_scores", text |-> text, outcome |-> outcome,
                         ret |-> get_sentiment_scores(text, outcome)]
    /\ UNCHANGED <<sentiment_analyzer, text_generator, gen_call, history, clock, render>>

\* the caller takes the result: the component is ready for its next call
ReturnFromAnalyzer ==
    /\ sent_call.op # "none"
    /\ sent_call' = NoSentCall
    /\ UNCHANGED <<sentiment_analyzer, text_generator, gen_call, history, clock, render>>

InitSent ==
    /\ sentiment_analyzer = "ready"
    /\ text_generator = NoGenerator
    /\ sent_call = NoSentCall
    /\ gen_call = NoGenCall
    /\ history = <<>>
    /\ clock = 0
    /\ render = NoRender

NextSent == CallDetectSentiment \/ CallGetSentimentScores \/ ReturnFromAnalyzer

SpecSent == InitSent /\ [][NextSent]_vars

(***************************************************************************)
(* The session: every action is one run of the script of main.py.          *)
(***************************************************************************)

\* a run in which "Generate Text" was clicked
RunGenerate(prompt, mode, manual_sentiment, show_scores, label_outcome, scores_outcome, choice, outcome) ==
    LET run == GenerationLogic(prompt, mode, manual_sentiment, show_scores,
                               sentiment_analyzer, text_generator,
                               label_outcome, scores_outcome, choice, outcome)
        now == clock + 1
    IN  /\ history' = IF run.completed
                      THEN AppendEntry(history, HistoryEntry(prompt, run, now)) ELSE history
        /\ clock' = IF run.completed THEN now ELSE clock
        /\ render' = Shown("generate", prompt, run, history')
        /\ UNCHANGED <<sentiment_analyzer, text_generator, sent_call, gen_call>>

RenderGenerateAutomatic ==
    /\ clock < MaxGenerations
    /\ \E prompt \in SessionPrompts, show_scores \in BOOLEAN,
          label_outcome \in SessionLabelOutcomes, scores_outcome \in SessionLabelOutcomes,
          choice \in DrawnChoices, outcome \in SessionModelOutcomes :
           RunGenerate(prompt, "Automatic Sentiment", "neutral", show_scores,
                       label_outcome, scores_outcome, choice, outcome)

RenderGenerateManual ==
    /\ clock < MaxGenerations
    /\ \E prompt \in SessionPrompts, manual_sentiment \in SessionManualSentiments,
          choice \in DrawnChoices, outcome \in SessionModelOutcomes :
           RunGenerate(prompt, "Manual Sentiment", manual_sentiment, FALSE,
                       NoSentCall.outcome, NoSentCall.outcome, choice, outcome)

\* a run in which "Clear History" was clicked
RenderClearHistory ==
    /\ history' = <<>>
    /\ render' = Shown("clear_history", <<>>, NoRun, history')
    /\ UNCHANGED <<sentiment_analyzer, text_generator, sent_call, gen_call, clock>>

\* a run in which "Clear Input" was clicked: st.rerun() ends it before the
\* generation logic and the script runs again with no button pressed
RenderClearInput ==
    /\ render' = Shown("clear_input", <<>>, NoRun, history)
    /\ UNCHANGED <<sentiment_analyzer, text_generator, sent_call, gen_call, history, clock>>

\* a run started by a widget that is no button
RenderIdle ==
    /\ render' = Shown("idle", <<>>, NoRun, history)
    /\ UNCHANGED <<sentiment_analyzer, text_generator, sent_call, gen_call, history, clock>>

\* the first run of the script: the history is created empty, the models are loaded
Init ==
    /\ \E analyzer_ok \in BOOLEAN, pipeline_ok \in BOOLEAN, tokenizer_ok \in BOOLEAN,
          model_ok \in BOOLEAN :
           LET models == LoadModels(analyzer_ok,
                                    TextGeneratorInit(pipeline_ok, tokenizer_ok, model_ok))
           IN  /\ sentiment_analyzer = models.sentiment_analyzer
               /\ text_generator = models.text_generator
    /\ sent_call = NoSentCall
    /\ gen_call = NoGenCall
    /\ history = <<>>
    /\ clock = 0
    /\ render = Shown("idle", <<>>, NoRun, <<>>)

Next ==
    \/ RenderGenerateAutomatic
    \/ RenderGenerateManual
    \/ RenderClearHistory
    \/ RenderClearInput
    \/ RenderIdle

Spec == Init /\ [][Next]_vars

(***************************************************************************)
(* Properties.                                                             *)
(***************************************************************************)

\* C1: for a sentiment among positive, negative, neutral and a non-empty
\* prompt, the string generate_text returns ends in '.', '!' or '?' and has a
\* trimmed length of at least 20, whichever path produced it (the model's
\* text, the exception handler, the too-short replacement, the model not
\* loaded).
C1_ReturnedTextWellFormed ==
    (gen_call.op = "generate_text" /\ gen_call.sentiment \in Sentiments
        /\ gen_call.prompt # <<>>)
    => /\ ~gen_call.ret.raised
       /\ gen_call.ret.path \in {"generated", "exception", "too_short", "not_loaded"}
       /\ Len(gen_call.ret.text) > 0
       /\ gen_call.ret.text[Len(gen_call.ret.text)] \in {".", "!", "?"}
       /\ Cardinality({i \in 1..Len(gen_call.ret.text) :
              /\ \E j \in 1..i : gen_call.ret.text[j] \notin Whitespace
              /\ \E j \in i..Len(gen_call.ret.text) : gen_call.ret.text[j] \notin Whitespace})
            >= MinContentLength

\* a model text of exactly 20 characters with no ending is returned with a '.'
C1_Witness ==
    /\ gen_call.op = "generate_text"
    /\ gen_call.sentiment \in Sentiments
    /\ gen_call.prompt # <<>>
    /\ gen_call.ret.path = "generated"
    /\ Len(gen_call.ret.text) = MinContentLength + 1
    /\ gen_call.outcome.tail # gen_call.ret.text

\* C2: generate_text never raises to its caller; when the model is loaded and
\* its one invocation, or the reading of its result, raises, the call returns
\* exactly the contextual fallback of the same prompt and sentiment; the model
\* is invoked at most once per call.
C2_FailureBecomesFallback ==
    gen_call.op = "generate_text"
    => /\ ~gen_call.ret.raised
       /\ gen_call.ret.invocations <= 1
       /\ (text_generator.model_loaded /\ gen_call.outcome.kind \in {"raise", "malformed"})
          => /\ gen_call.ret.text
                  = generate_contextual_fallback(gen_call.prompt, gen_call.sentiment)
             /\ gen_call.ret.invocations = 1

C2_Witness ==
    /\ gen_call.op = "generate_text"
    /\ text_generator.model_loaded
    /\ gen_call.outcome.kind = "malformed"
    /\ gen_call.ret.path = "exception"
    /\ gen_call.ret.text = NegativeParagraph1

\* the twelve canned paragraphs
FallbackTexts ==
    {PositiveParagraph1, PositiveParagraph2, PositiveParagraph3, PositiveDefault,
     NegativeParagraph1, NegativeParagraph2, NegativeParagraph3, NegativeDefault,
     NeutralParagraph1, NeutralParagraph2, NeutralParagraph3, NeutralDefault}

\* C3: when loading the language model fails during construction, no exception
\* leaves the constructor, and every later generate_text call returns one of
\* the canned paragraphs without invoking the model.
C3_LoadFailureLeavesFallbackMode ==
    /\ text_generator.constructed # "raised"
    /\ (text_generator.constructed = "yes" /\ ~text_generator.model_loaded
            /\ gen_call.op = "generate_text")
       => /\ ~gen_call.ret.raised
          /\ gen_call.ret.invocations = 0
          /\ gen_call.ret.text \in FallbackTexts

\* C4: detect_sentiment returns one of positive, negative, neutral for every
\* text and every label the classifier returns (also a result with no label):
\* positive when the lower-cased label contains "pos", otherwise negative when
\* it contains "neg", otherwise neutral.
C4_LabelNormalised ==
    (sent_call.op = "detect_sentiment" /\ ~sent_call.ret.raised)
    => LET result == sent_call.outcome.result
           label == Lower(IF result.has_label THEN result.label ELSE <<>>)
           has_pos == \E i \in 1..Len(label) :
                          i + 2 <= Len(label) /\ <<label[i], label[i + 1], label[i + 2]>> = LabelPos
           has_neg == \E i \in 1..Len(label) :
                          i + 2 <= Len(label) /\ <<label[i], label[i + 1], label[i + 2]>> = LabelNeg
       IN  /\ sent_call.ret.value \in {"positive", "negative", "neutral"}
           /\ sent_call.ret.invocations = 1
              => /\ (sent_call.ret.value = "positive") <=> has_pos
                 /\ (sent_call.ret.value = "negative") <=> (~has_pos /\ has_neg)
                 /\ (sent_call.ret.value = "neutral") <=> (~has_pos /\ ~has_neg)

\* "NEG_POS"
LabelNegPos ==
    <<"N", "E", "G", "_", "P", "O", "S">>
\* an upper-case label holding both "neg" and "pos" is positive
C4_Witness ==
    /\ sent_call.op = "detect_sentiment"
    /\ sent_call.ret.invocations = 1
    /\ sent_call.outcome.kind = "result"
    /\ sent_call.outcome.result.has_label
    /\ sent_call.outcome.result.label = LabelNegPos
    /\ sent_call.ret.value = "positive"

\* the keyword groups of a sentiment with their paragraphs, in source order,
\* and the paragraph returned when no group matches
KeywordGroups(sentiment) ==
    IF sentiment = "positive"
    THEN <<[keywords |-> PositiveKeywords1, paragraph |-> PositiveParagraph1],
           [keywords |-> PositiveKeywords2, paragraph |-> PositiveParagraph2],
           [keywords |-> PositiveKeywords3, paragraph |-> PositiveParagraph3]>>
    ELSE IF sentiment = "negative"
    THEN <<[keywords |-> NegativeKeywords1, paragraph |-> NegativeParagraph1],
           [keywords |-> NegativeKeywords2, paragraph |-> NegativeParagraph2],
           [keywords |-> NegativeKeywords3, paragraph |-> NegativeParagraph3]>>
    ELSE <<[keywords |-> NeutralKeywords1, paragraph |-> NeutralParagraph1],
           [keywords |-> NeutralKeywords2, paragraph |-> NeutralParagraph2],
           [keywords |-> NeutralKeywords3, paragraph |-> NeutralParagraph3]>>
DefaultParagraph(sentiment) ==
    IF sentiment = "positive" THEN PositiveDefault
    ELSE IF sentiment = "negative" THEN NegativeDefault
    ELSE NeutralDefault

\* the paragraph of the first group one of whose keywords occurs in the
\* lower-cased prompt
FirstMatch(prompt, sentiment) ==
    LET groups == KeywordGroups(sentiment)
        lowered == Lower(prompt)
        matching == {g \in DOMAIN groups :
                        \E k \in DOMAIN groups[g].keywords : Contains(lowered, groups[g].keywords[k])}
    IN  IF matching = {} THEN DefaultParagraph(sentiment)
        ELSE groups[CHOOSE g \in matching : \A h \in matching : g <= h].paragraph

\* "I got a promotion today"
PromotionPrompt ==
    <<"I", " ", "g", "o", "t", " ", "a", " ", "p", "r", "o", "m", "o", "t", "i", "o", "n", " ",
      "t", "o", "d", "a", "y">>
\* "I was stuck in traffic"
TrafficPrompt ==
    <<"I", " ", "w", "a", "s", " ", "s", "t", "u", "c", "k", " ", "i", "n", " ", "t", "r", "a",
      "f", "f", "i", "c">>
\* "I had coffee this morning"
CoffeePrompt ==
    <<"I", " ", "h", "a", "d", " ", "c", "o", "f", "f", "e", "e", " ", "t", "h", "i", "s", " ",
      "m", "o", "r", "n", "i", "n", "g">>
\* "Great success, so happy!"
OverlapPrompt ==
    <<"G", "r", "e", "a", "t", " ", "s", "u", "c", "c", "e", "s", "s", ",", " ", "s", "o", " ",
      "h", "a", "p", "p", "y", "!">>
\* C5: the contextual fallback returns the paragraph of the first keyword
\* group, in source order, with a keyword occurring in the lower-cased prompt,
\* and the default paragraph of the sentiment when none matches; the three
\* documented examples get the promot, the traffic and the coffee paragraph.
\* The text is a function of prompt and sentiment alone.
C5_FallbackFirstMatch ==
    (gen_call.op \in {"generate_fallback", "generate_text"}
        /\ gen_call.ret.path \in {"fallback", "not_loaded", "exception", "too_short"})
    => /\ gen_call.ret.text = FirstMatch(gen_call.prompt, gen_call.sentiment)
       /\ (gen_call.prompt = PromotionPrompt /\ gen_call.sentiment = "positive")
          => gen_call.ret.text = PositiveParagraph1
       /\ (gen_call.prompt = TrafficPrompt /\ gen_call.sentiment = "negative")
          => gen_call.ret.text = NegativeParagraph1
       /\ (gen_call.prompt = CoffeePrompt /\ gen_call.sentiment = "neutral")
          => gen_call.ret.text = NeutralParagraph1

\* a prompt with keywords of the first and of the second positive group
C5_Witness ==
    /\ gen_call.op = "generate_fallback"
    /\ gen_call.prompt = OverlapPrompt
    /\ gen_call.sentiment = "positive"
    /\ gen_call.ret.text = PositiveParagraph1

IsPrefix(s, t) == Len(s) <= Len(t) /\ SubSeq(t, 1, Len(s)) = s

\* C6 as stated: the history is append-only, no action of the session removes
\* or changes an entry, so after N completed generations it holds N entries.
C6_AppendOnly ==
    [][IsPrefix(history, history')]_vars

\* C6: every run other than a Clear History run keeps the entries in place and
\* in order, a completed generation adding exactly one entry at the end; a
\* Clear History run empties the list. So the history holds, in generation
\* order, the entries of the generations completed since the last Clear
\* History (the n-th completed generation is stamped n).
C6_AppendOnlyUntilCleared ==
    /\ [](\A i \in 1..Len(history) : history[i].timestamp = clock - Len(history) + i)
    /\ [][\/ render'.kind = "clear_history" /\ history' = <<>>
          \/ /\ render'.kind # "clear_history"
             /\ IsPrefix(history, history')
             /\ Len(history') = Len(history) + (IF clock' # clock THEN 1 ELSE 0)]_vars

\* generations before and after a Clear History
C6_Witness ==
    /\ render.kind = "generate"
    /\ render.completed
    /\ Len(history) = 2
    /\ clock = 4

\* C7: a run that shows the history section shows the min(5, length) most
\* recently appended entries, newest first; the entry appended in the same run
\* is the first of them.
C7_DisplayNewestFive ==
    render.shown
    => /\ Len(render.display) = (IF Len(history) < 5 THEN Len(history) ELSE 5)
       /\ \A i \in 1..Len(render.display) : render.display[i] = history[Len(history) - i + 1]
       /\ render.completed
          => /\ render.display # <<>>
             /\ render.display[1].timestamp = clock
             /\ render.display[1].prompt = render.prompt

\* six entries, five shown
C7_Witness ==
    /\ render.completed
    /\ Len(history) = 6
    /\ Len(render.display) = 5
    /\ render.display[5] = history[2]

\* C8: a Generate run whose prompt is empty or only whitespace warns the user,
\* calls neither the classifier nor the generator, and appends no entry.
C8_BlankPromptRejected ==
    [][(render'.kind = "generate"
           /\ \A i \in 1..Len(render'.prompt) : render'.prompt[i] \in {" ", "\n", "\t"})
       => /\ render'.warned
          /\ render'.classifier_calls = 0
          /\ render'.generator_calls = 0
          /\ ~render'.completed
          /\ history' = history
          /\ clock' = clock]_vars

\* a whitespace-only prompt is rejected with entries already in the history
C8_Witness ==
    /\ render.kind = "generate"
    /\ render.prompt = <<" ", "\n">>
    /\ render.warned
    /\ Len(history) = 1

\* C9: on an empty or whitespace-only text detect_sentiment returns neutral
\* and get_sentiment_scores returns {label: neutral, score: 0.0}, neither
\* invoking the classification model; on any other text each invokes it
\* exactly once.
C9_BlankTextSkipsModel ==
    sent_call.op \in {"detect_sentiment", "get_sentiment_scores"}
    => IF \A i \in 1..Len(sent_call.text) : sent_call.text[i] \in {" ", "\n", "\t"}
       THEN /\ sent_call.ret.invocations = 0
            /\ ~sent_call.ret.raised
            /\ sent_call.op = "detect_sentiment" => sent_call.ret.value = "neutral"
            /\ sent_call.op = "get_sentiment_scores"
               => /\ sent_call.ret.value.has_label
                  /\ sent_call.ret.value.label = LabelNeutral
                  /\ sent_call.ret.value.score = 0
       ELSE sent_call.ret.invocations = 1

C9_Witness ==
    /\ sent_call.op = "get_sentiment_scores"
    /\ sent_call.text = <<"\n", "\t", " ">>
    /\ sent_call.outcome.kind = "result"
    /\ sent_call.ret.invocations = 0

\* dropping the first a and the last b characters of s trims s: they are all
\* whitespace, and what is left neither starts nor ends with whitespace
Trims(s, a, b) ==
    /\ \A i \in 1..a : s[i] \in {" ", "\n", "\t"}
    /\ \A i \in (Len(s) - b + 1)..Len(s) : s[i] \in {" ", "\n", "\t"}
    /\ a + b < Len(s) => (s[a + 1] \notin {" ", "\n", "\t"} /\ s[Len(s) - b] \notin {" ", "\n", "\t"})

\* C10: the cleaned prompt is the trimmed prompt, with a '.' appended exactly
\* when the trimmed prompt does not end in '.', '!' or '?'; cleaning it again
\* changes nothing; the continuation prompt is "Story: ", the cleaned prompt,
\* one space and one of the five clauses of the sentiment (the neutral ones
\* for a sentiment that is none of the three).
C10_PromptCleaning ==
    (gen_call.op = "generate_text" /\ text_generator.model_loaded)
    => LET cleaned == CleanPrompt(gen_call.prompt)
           clauses == IF gen_call.sentiment = "positive" THEN PositiveClauses
                      ELSE IF gen_call.sentiment = "negative" THEN NegativeClauses
                      ELSE NeutralClauses
       IN  /\ \E a \in 0..Len(gen_call.prompt) : \E b \in 0..(Len(gen_call.prompt) - a) :
                  LET t == SubSeq(gen_call.prompt, a + 1, Len(gen_call.prompt) - b)
                  IN  /\ Trims(gen_call.prompt, a, b)
                      /\ cleaned = IF t # <<>> /\ t[Len(t)] \in {".", "!", "?"}
                                   THEN t ELSE t \o <<".">>
           /\ CleanPrompt(cleaned) = cleaned
           /\ Len(clauses) = 5
           /\ \E c \in 1..5 :
                  gen_call.enhanced_prompt = StoryMarker \o cleaned \o <<" ">> \o clauses[c]

\* a prompt that ends in '!' inside surrounding whitespace, with a sentiment
\* that is none of the three
C10_Witness ==
    /\ gen_call.op = "generate_text"
    /\ text_generator.model_loaded
    /\ gen_call.prompt = <<" ", "!">>
    /\ gen_call.sentiment = "mixed"
    /\ gen_call.choice = 5

\* C11: on the generative path of generate_text (the model is loaded, its one
\* invocation returns a text that begins with the constructed "Story: "
\* continuation prompt, and the text left after steps 1 to 3 is long enough to
\* be returned), the returned text does not start with the prompt as the
\* caller passed it.  The prompts are those the caller of main.py line 174 can
\* pass: any string with a character that is not whitespace, trimmed or not,
\* ending in '.', '!' or '?' or not.
C11_EchoedPromptRemoved ==
    (/\ gen_call.op = "generate_text"
     /\ text_generator.model_loaded
     /\ \E i \in 1..Len(gen_call.prompt) : gen_call.prompt[i] \notin {" ", "\n", "\t"}
     /\ gen_call.outcome.kind = "text"
     /\ StartsWith(RawText(gen_call.enhanced_prompt, gen_call.outcome),
                   gen_call.enhanced_prompt)
     /\ gen_call.ret.path = "generated")
    => ~StartsWith(gen_call.ret.text, gen_call.prompt)
=============================================================================
